---- MODULE Spec2Model ----
(***************************************************************************)
(* A model of the OSM building layer of opengeolab/3dosm:                  *)
(*   - BuildingShape.setAltitude (the altitude fallback policy),           *)
(*   - OSMBuildingLayer.createSectors (the sector grid),                   *)
(*   - OSMBuildingLayer.add / addByBoundingBox / addByGeoJSONFile /        *)
(*     addBySector with their jQuery success and error callbacks, the two  *)
(*     feature caches and the render layers attached to the WorldWindow.   *)
(*                                                                         *)
(* JavaScript values are modelled as records [t, v]: t is the kind of the  *)
(* value and v its integer payload, so that truthiness, ToNumber and the   *)
(* difference between a number and a numeric string are what the script    *)
(* engine makes of them.                                                   *)
(***************************************************************************)
EXTENDS Integers, Sequences, FiniteSets, TLC

VARIABLES
    \* ---- BuildingShape (one shape, one setAltitude or setColor call)
    properties,      \* BuildingShape._properties
    configuration,   \* the argument of setAltitude
    altitude,        \* BuildingShape._altitude
    color,           \* BuildingShape._color
    shapePc,         \* "new" after construction, "set" / "threw" after setAltitude,
                     \* "coloured" after setColor
    \* ---- createSectors (one call)
    sectorBox,       \* the boundingBox argument, in units of 1e-6 degree
    sectors,         \* the returned array
    sectorPc,        \* "idle" | "done"
    \* ---- OSMBuildingLayer (one layer instance and its WorldWindow)
    source,          \* OSMBuildingLayer._source
    boundingBox,     \* OSMBuildingLayer.boundingBox
    geometryCache,   \* OSMBuildingLayer._geometryCache
    propertiesCache, \* OSMBuildingLayer._propertiesCache
    pending,         \* the $.ajax requests in flight
    fetchLog,        \* every request handed to $.ajax so far, in order
    wwLayers,        \* the layers attached to the WorldWindow, in order
    layerConf,       \* OSMLayer._configuration, as given to the constructor
    lastOp,          \* the operation or callback that ran last, and how it ended
    trace,           \* what the last operation or callback did, in order
    \* ---- a GeoJSON parser (one call of addRenderablesForPolygon / MultiPolygon)
    parserCall,      \* the parser (variant, crs, configuration) and the arguments
    parserLayers,    \* the renderables of the parser's own layer and of another layer
    parserOut        \* how the call ended and what it did on the way

shapeVars  == <<properties, configuration, altitude, color, shapePc>>
sectorVars == <<sectorBox, sectors, sectorPc>>
layerVars  == <<source, boundingBox, geometryCache, propertiesCache, pending,
                fetchLog, wwLayers, layerConf, lastOp, trace>>
parserVars == <<parserCall, parserLayers, parserOut>>
vars       == <<properties, configuration, altitude, color, shapePc,
                sectorBox, sectors, sectorPc,
                source, boundingBox, geometryCache, propertiesCache, pending,
                fetchLog, wwLayers, layerConf, lastOp, trace,
                parserCall, parserLayers, parserOut>>

(***************************************************************************)
(* JavaScript values                                                       *)
(***************************************************************************)
Undef    == [t |-> "undefined", v |-> 0]
Null     == [t |-> "null", v |-> 0]
NaN      == [t |-> "nan", v |-> 0]
Num(n)   == [t |-> "num", v |-> n]
\* the decimal string of n, such as "9"
Str(n)   == [t |-> "str", v |-> n]
\* the empty string
EmptyStr == [t |-> "estr", v |-> 0]
\* a non-empty string that is no number, such as "yes"
NStr     == [t |-> "nstr", v |-> 0]
Bool(b)  == [t |-> "bool", v |-> IF b THEN 1 ELSE 0]
\* the name of the i-th key of PropertyKeys, as a string value
Key(i)   == [t |-> "key", v |-> i]

\* ToBoolean
Truthy(x) ==
    CASE x.t \in {"undefined", "null", "nan", "estr"} -> FALSE
      [] x.t \in {"num", "bool"} -> x.v # 0
      [] OTHER -> TRUE

\* the altitude of a shape that has none of its own, and the metres per level
DefaultAltitude == 15
LevelHeight == 3

\* x * 3: ToNumber(x) times three
Times3(x) ==
    CASE x.t \in {"num", "str", "bool"} -> Num(x.v * LevelHeight)
      [] x.t \in {"null", "estr"} -> Num(0)
      [] OTHER -> NaN

(***************************************************************************)
(* Feature properties: absent (null or undefined), or a mapping with own   *)
(* fields and an optional "tags" sub-mapping.  A field that is not present *)
(* reads as undefined.                                                     *)
(***************************************************************************)
PropertyKeys == <<"height", "building:levels", "area">>
TagKeys      == {"height", "building:levels"}

KeySet == {PropertyKeys[i] : i \in 1..Len(PropertyKeys)}

NoProperties ==
    [isMap |-> FALSE, own |-> [k \in KeySet |-> Undef],
     hasTags |-> FALSE, tags |-> [k \in TagKeys |-> Undef]]

\* properties[key] for a property name given as a JavaScript value
Lookup(props, key) ==
    IF key.t = "key" /\ key.v \in 1..Len(PropertyKeys)
    THEN props.own[PropertyKeys[key.v]]
    ELSE Undef

(***************************************************************************)
(* BuildingShape                                                           *)
(***************************************************************************)
\* the "osm" branch with the tags consulted before the shape's own building:levels
OsmAltitudeTagsFirst(props) ==
    IF props.isMap /\ Truthy(props.own["height"])
    THEN [raised |-> "none", altitude |-> props.own["height"]]
    ELSE IF props.isMap /\ props.hasTags /\ Truthy(props.tags["height"])
    THEN [raised |-> "none", altitude |-> props.tags["height"]]
    ELSE IF props.isMap /\ Truthy(props.own["building:levels"])
    THEN [raised |-> "none", altitude |-> Times3(props.own["building:levels"])]
    ELSE IF ~props.isMap
    THEN [raised |-> "TypeError", altitude |-> Num(DefaultAltitude)]
    ELSE IF props.hasTags /\ Truthy(props.tags["building:levels"])
    THEN [raised |-> "none", altitude |-> Times3(props.tags["building:levels"])]
    ELSE [raised |-> "none", altitude |-> Num(DefaultAltitude)]

\* the "osm" branch of setAltitude
OsmAltitude(props) ==
    IF props.isMap /\ Truthy(props.own["height"])
    THEN [raised |-> "none", altitude |-> props.own["height"]]
    ELSE IF props.isMap /\ Truthy(props.own["building:levels"])
    THEN [raised |-> "none", altitude |-> Times3(props.own["building:levels"])]
    ELSE IF ~props.isMap
    THEN [raised |-> "TypeError", altitude |-> Num(DefaultAltitude)]
    ELSE IF props.hasTags /\ Truthy(props.tags["height"])
    THEN [raised |-> "none", altitude |-> props.tags["height"]]
    ELSE IF props.hasTags /\ Truthy(props.tags["building:levels"])
    THEN [raised |-> "none", altitude |-> Times3(props.tags["building:levels"])]
    ELSE [raised |-> "none", altitude |-> Num(DefaultAltitude)]

\* the "property" branch without the test of the property's own value
PropertyAltitudeUnchecked(props, conf) ==
    IF ~Truthy(conf.altitude.value)
    THEN [raised |-> "none", altitude |-> Num(DefaultAltitude)]
    ELSE IF ~props.isMap
    THEN [raised |-> "TypeError", altitude |-> Num(DefaultAltitude)]
    ELSE [raised |-> "none", altitude |-> Lookup(props, conf.altitude.value)]

\* the "property" branch of setAltitude
PropertyAltitude(props, conf) ==
    IF ~Truthy(conf.altitude.value)
    THEN [raised |-> "none", altitude |-> Num(DefaultAltitude)]
    ELSE IF ~props.isMap
    THEN [raised |-> "TypeError", altitude |-> Num(DefaultAltitude)]
    ELSE IF Truthy(Lookup(props, conf.altitude.value))
    THEN [raised |-> "none", altitude |-> Lookup(props, conf.altitude.value)]
    ELSE [raised |-> "none", altitude |-> Num(DefaultAltitude)]

\* setAltitude with the number branch taken whatever extrude is
SetAltitudeNumberUnguarded(props, conf) ==
    IF conf.altitude.present /\ conf.altitude.type = "number"
    THEN [raised |-> "none",
          altitude |-> IF Truthy(conf.altitude.value) THEN conf.altitude.value
                       ELSE Num(DefaultAltitude)]
    ELSE IF Truthy(conf.extrude) /\ conf.altitude.present /\ conf.altitude.type = "osm"
    THEN OsmAltitude(props)
    ELSE IF Truthy(conf.extrude) /\ conf.altitude.present /\ conf.altitude.type = "property"
    THEN PropertyAltitude(props, conf)
    ELSE IF Truthy(conf.extrude)
    THEN [raised |-> "none", altitude |-> Num(DefaultAltitude)]
    ELSE [raised |-> "none", altitude |-> Num(0)]

\* setAltitude with the configured number taken as it is
SetAltitudeNumberAsIs(props, conf) ==
    IF Truthy(conf.extrude) /\ conf.altitude.present /\ conf.altitude.type = "number"
    THEN [raised |-> "none", altitude |-> conf.altitude.value]
    ELSE IF Truthy(conf.extrude) /\ conf.altitude.present /\ conf.altitude.type = "osm"
    THEN OsmAltitude(props)
    ELSE IF Truthy(conf.extrude) /\ conf.altitude.present /\ conf.altitude.type = "property"
    THEN PropertyAltitude(props, conf)
    ELSE IF Truthy(conf.extrude)
    THEN [raised |-> "none", altitude |-> Num(DefaultAltitude)]
    ELSE [raised |-> "none", altitude |-> Num(0)]

\* BuildingShape.prototype.setAltitude on a shape constructed with props:
\* what it raises and the value of _altitude afterwards
SetAltitude(props, conf) ==
    IF Truthy(conf.extrude) /\ conf.altitude.present /\ conf.altitude.type = "number"
    THEN [raised |-> "none",
          altitude |-> IF Truthy(conf.altitude.value) THEN conf.altitude.value
                       ELSE Num(DefaultAltitude)]
    ELSE IF Truthy(conf.extrude) /\ conf.altitude.present /\ conf.altitude.type = "osm"
    THEN OsmAltitude(props)
    ELSE IF Truthy(conf.extrude) /\ conf.altitude.present /\ conf.altitude.type = "property"
    THEN PropertyAltitude(props, conf)
    ELSE IF Truthy(conf.extrude)
    THEN [raised |-> "none", altitude |-> Num(DefaultAltitude)]
    ELSE [raised |-> "none", altitude |-> Num(0)]

(***************************************************************************)
(* setColor.  The channels of a colour are held in twelfths, so that 0.5   *)
(* is 6 and the steps 0.5, 0.25 and 0.5/3 of three, four and five          *)
(* thresholds are 6, 3 and 2.                                              *)
(***************************************************************************)
\* 0.5, in twelfths
ColourHalf == 6

Colour(r, g, b, a) == [red |-> r, green |-> g, blue |-> b, alpha |-> a]

\* heat = 0.5/(numberOfThresholds-2), in twelfths
Heat(numberOfThresholds) == ColourHalf \div (numberOfThresholds - 2)

\* this._altitude > lower && this._altitude <= upper, the altitude
\* converted to a number
InBracket(alt, lower, upper) ==
    /\ alt.t \in {"num", "str"}
    /\ alt.v > lower
    /\ alt.v <= upper

\* the loops of setColor with the lower threshold counted into the bracket
RECURSIVE SetColorFromClosedBelow(_, _, _, _, _)
SetColorFromClosedBelow(colour, redBelowHalf, alt, thresholds, thresholdIndex) ==
    IF thresholdIndex >= Len(thresholds) - 1 THEN colour
    ELSE LET n == Len(thresholds)
             c == IF /\ alt.t \in {"num", "str"}
                     /\ alt.v >= thresholds[thresholdIndex + 1]
                     /\ alt.v <= thresholds[thresholdIndex + 2]
                  THEN [colour EXCEPT !.red =
                            IF redBelowHalf THEN @ + Heat(n) * thresholdIndex
                            ELSE @ - Heat(n) * (n - thresholdIndex)]
                  ELSE colour
         IN  SetColorFromClosedBelow(c, redBelowHalf, alt, thresholds, thresholdIndex + 1)

\* The loops of setColor from thresholdIndex on: the colour is replaced in
\* every bracket that holds the altitude, each time from the colour as it is
\* by then.  thresholds[thresholdIndex] of the code is
\* thresholds[thresholdIndex + 1] here.
RECURSIVE SetColorFrom(_, _, _, _, _)
SetColorFrom(colour, redBelowHalf, alt, thresholds, thresholdIndex) ==
    IF thresholdIndex >= Len(thresholds) - 1 THEN colour
    ELSE LET n == Len(thresholds)
             c == IF InBracket(alt, thresholds[thresholdIndex + 1],
                               thresholds[thresholdIndex + 2])
                  THEN [colour EXCEPT !.red =
                            IF redBelowHalf THEN @ + Heat(n) * thresholdIndex
                            ELSE @ - Heat(n) * (n - thresholdIndex)]
                  ELSE colour
         IN  SetColorFrom(c, redBelowHalf, alt, thresholds, thresholdIndex + 1)

\* BuildingShape.prototype.setColor on a shape of altitude alt: the
\* configuration's interior colour afterwards, which is the shape's _color
SetColor(alt, conf) ==
    SetColorFrom(conf.attributes.interiorColor,
                 conf.attributes.interiorColor.red < ColourHalf,
                 alt, conf.heatmap.thresholds, 0)

(***************************************************************************)
(* createSectors.  Coordinates are held in units of 1e-6 degree, one digit *)
(* finer than the five decimals toFixed keeps; inputs whose sixth decimal  *)
(* is 5 are left out, as their rounding is decided by the binary           *)
(* representation of the double.  toFixed returns a string: the sectors    *)
(* are built from the decimal strings, which are modelled by the numbers   *)
(* they spell.                                                             *)
(***************************************************************************)
\* one unit of the fifth decimal, in units of 1e-6 degree
Unit5 == 10
\* sectorSize = 0.01, in units of 1e-6 degree
SectorSize == 10000

\* Number.prototype.toFixed(5): the nearest multiple of 1e-5
ToFixed5(u) ==
    LET r == u % Unit5
    IN  IF 2 * r >= Unit5 THEN u - r + Unit5 ELSE u - r

\* The quotients k (below 60) for which the double division
\* Number((k/100).toFixed(5)) / 0.01 comes out above k, so that
\* Math.ceil gives k + 1: 0.07/0.01 is 7.000000000000001.
FloatOvershoot == {7, 14, 28, 56}

\* Math.ceil(w.toFixed(5) / sectorSize) for a rounded extent w
CeilOverSectorSize(w) ==
    IF w % SectorSize = 0
    THEN IF (w \div SectorSize) \in FloatOvershoot
         THEN (w \div SectorSize) + 1
         ELSE w \div SectorSize
    ELSE (w \div SectorSize) + 1

\* new Sector(minLatitude, maxLatitude, minLongitude, maxLongitude)
Sector(minLat, maxLat, minLon, maxLon) ==
    [minLatitude |-> minLat, maxLatitude |-> maxLat,
     minLongitude |-> minLon, maxLongitude |-> maxLon]

SectorsOnXCount(bb) == CeilOverSectorSize(ToFixed5(bb[3] - bb[1]))
SectorsOnYCount(bb) == CeilOverSectorSize(ToFixed5(bb[4] - bb[2]))

\* the sector for (indexX, indexY) with every upper edge taken from the grid
SectorAtUnclipped(bb, indexX, indexY) ==
    Sector(ToFixed5(bb[2] + SectorSize * indexY),
           ToFixed5(bb[2] + SectorSize * (indexY + 1)),
           ToFixed5(bb[1] + SectorSize * indexX),
           ToFixed5(bb[1] + SectorSize * (indexX + 1)))

\* the sector pushed for (indexX, indexY)
SectorAt(bb, indexX, indexY) ==
    LET x1 == ToFixed5(bb[1] + SectorSize * indexX)
        x2 == IF indexX + 1 = SectorsOnXCount(bb)
              THEN ToFixed5(bb[3])
              ELSE ToFixed5(bb[1] + SectorSize * (indexX + 1))
        y1 == ToFixed5(bb[2] + SectorSize * indexY)
        y2 == IF indexY + 1 = SectorsOnYCount(bb)
              THEN ToFixed5(bb[4])
              ELSE ToFixed5(bb[2] + SectorSize * (indexY + 1))
    IN  Sector(y1, y2, x1, x2)

\* OSMBuildingLayer.prototype.createSectors: Y is the outer loop, X the inner
CreateSectors(bb) ==
    LET nx == SectorsOnXCount(bb)
        ny == SectorsOnYCount(bb)
        n  == IF nx > 0 /\ ny > 0 THEN nx * ny ELSE 0
    IN  [k \in 1..n |-> SectorAt(bb, (k - 1) % nx, (k - 1) \div nx)]

\* The bounding boxes createSectors is called with: [x1, y1, x2, y2].
BoxX1 == {0, 0 - 10000, 10000004}
BoxWidth == {0 - 10000, 0, 5000, 10000, 25000, 25003, 70000}
BoxY1 == {0, 50000007}
BoxHeight == {0, 10000, 12000, 20006}
SectorBoxes ==
    {<<x, y, x + w, y + h>> : x \in BoxX1, y \in BoxY1, w \in BoxWidth, h \in BoxHeight}
NoBox == <<0, 0, 0, 0>>

SectorInit ==
    /\ sectorBox \in SectorBoxes
    /\ sectors = <<>>
    /\ sectorPc = "idle"

SectorIdle ==
    /\ sectorBox = NoBox
    /\ sectors = <<>>
    /\ sectorPc = "off"

\* one call of createSectors(sectorBox)
CallCreateSectors ==
    /\ sectorPc = "idle"
    /\ sectors' = CreateSectors(sectorBox)
    /\ sectorPc' = "done"
    /\ UNCHANGED sectorBox
    /\ UNCHANGED <<shapeVars, layerVars, parserVars>>

(***************************************************************************)
(* One BuildingShape and one call of setAltitude.                          *)
(***************************************************************************)
OwnValues == {Undef, Num(0), Num(4), Str(9), NStr}
TagValues == {Undef, Num(0), Num(2), Str(7)}
AreaValues == {Undef, Num(0), Num(30)}

PropertyMaps ==
    {[isMap |-> TRUE,
      own |-> [k \in KeySet |-> CASE k = "height" -> h
                                  [] k = "building:levels" -> l
                                  [] OTHER -> a],
      hasTags |-> ht,
      tags |-> [k \in TagKeys |-> IF ~ht THEN Undef
                                  ELSE IF k = "height" THEN th ELSE tl]] :
        h \in OwnValues, l \in OwnValues, a \in AreaValues,
        ht \in BOOLEAN, th \in TagValues, tl \in TagValues}

AltitudeTypes == {"number", "osm", "property", "other"}
AltitudeValues == {Undef, Num(0), Num(20), Key(1), Key(3)}
NoAltitude == [present |-> FALSE, type |-> "none", value |-> Undef]
AltitudeConfigurations ==
    {NoAltitude} \cup
    {[present |-> TRUE, type |-> t, value |-> v] : t \in AltitudeTypes, v \in AltitudeValues}
ExtrudeValues == {Bool(FALSE), Bool(TRUE), Num(0), Num(2)}
ShapeConfigurations ==
    {[extrude |-> e, altitude |-> a] : e \in ExtrudeValues, a \in AltitudeConfigurations}

ShapeInit ==
    /\ properties \in PropertyMaps \cup {NoProperties}
    /\ configuration \in ShapeConfigurations
    /\ altitude = Num(DefaultAltitude)
    /\ color = Null
    /\ shapePc = "new"

ShapeIdle ==
    /\ properties = NoProperties
    /\ configuration = [extrude |-> Bool(FALSE), altitude |-> NoAltitude]
    /\ altitude = Num(DefaultAltitude)
    /\ color = Null
    /\ shapePc = "off"

\* one call of setAltitude(configuration) on the shape
CallSetAltitude ==
    /\ shapePc = "new"
    /\ LET r == SetAltitude(properties, configuration)
       IN  /\ altitude' = r.altitude
           /\ shapePc' = IF r.raised = "none" THEN "set" ELSE "threw"
    /\ UNCHANGED <<properties, configuration, color>>
    /\ UNCHANGED <<sectorVars, layerVars, parserVars>>

(***************************************************************************)
(* One BuildingShape with its altitude set, and one call of setColor.      *)
(***************************************************************************)
\* ordered threshold lists of three, four and five entries; the first is the
\* default of shapeConfigurationCallback
ThresholdLists ==
    {<<0, 15, 900>>, <<10, 20, 30>>, <<0, 10, 20, 30>>, <<0, 5, 5, 10, 20>>}
Reds == {0, 3, 5, 6, 9, 12}
InteriorColours == {Colour(r, g, 4, a) : r \in Reds, g \in {0, 7}, a \in {6, 12}}
ColourAltitudes ==
    {Num(0), Num(5), Num(7), Num(10), Num(15), Num(16), Num(20), Num(30), Num(31),
     Num(900), Num(901), Num(0 - 3), Str(9), NaN}

ColourConfigurations ==
    {[extrude |-> Bool(TRUE), altitude |-> NoAltitude,
      heatmap |-> [enabled |-> Bool(TRUE), thresholds |-> th],
      attributes |-> [interiorColor |-> c]] :
        th \in ThresholdLists, c \in InteriorColours}

ColourInit ==
    /\ properties = NoProperties
    /\ configuration \in ColourConfigurations
    /\ altitude \in ColourAltitudes
    /\ color = Null
    /\ shapePc = "new"

\* one call of setColor(configuration) on the shape
CallSetColor ==
    /\ shapePc = "new"
    /\ LET c == SetColor(altitude, configuration)
       IN  /\ configuration' = [configuration EXCEPT !.attributes.interiorColor = c]
           /\ color' = c
    /\ shapePc' = "coloured"
    /\ UNCHANGED <<properties, altitude>>
    /\ UNCHANGED <<sectorVars, layerVars, parserVars>>

(***************************************************************************)
(* MemoryCache, as the layer uses it: entries in emplacement order.        *)
(***************************************************************************)
GeometryCapacity == 30000
GeometryLowWater == 24000
PropertiesCapacity == 50000
PropertiesLowWater == 40000

EmptyCache == <<>>

RECURSIVE TotalWeight(_)
TotalWeight(entries) ==
    IF entries = <<>> THEN 0
    ELSE Head(entries).weight + TotalWeight(Tail(entries))

RECURSIVE WithoutKey(_, _)
WithoutKey(entries, key) ==
    IF entries = <<>> THEN <<>>
    ELSE IF Head(entries).key = key THEN WithoutKey(Tail(entries), key)
    ELSE <<Head(entries)>> \o WithoutKey(Tail(entries), key)

\* evict the oldest entries until the total weight is at or below lowWater
RECURSIVE MakeSpace(_, _)
MakeSpace(entries, lowWater) ==
    IF entries = <<>> \/ TotalWeight(entries) <= lowWater THEN entries
    ELSE MakeSpace(Tail(entries), lowWater)

\* MemoryCache.putEntry(key, value, weight)
PutEntry(entries, key, value, weight, capacity, lowWater) ==
    LET put == WithoutKey(entries, key) \o
               <<[key |-> key, value |-> value, weight |-> weight]>>
    IN  IF TotalWeight(put) > capacity THEN MakeSpace(put, lowWater) ELSE put

CacheKeys(entries) == {entries[i].key : i \in 1..Len(entries)}

\* MemoryCache.entryForKey(key)
GetEntry(entries, key) ==
    {entries[i].value : i \in {j \in 1..Len(entries) : entries[j].key = key}}

(***************************************************************************)
(* GeoJSON features.  A geometry holds, for each of its polygons, the      *)
(* number of rings (a Polygon is one polygon).                             *)
(***************************************************************************)
\* Object.keys(geometry).length: "type" and "coordinates", or the count an
\* object with further members carries
GeometryWeight(geometry) ==
    IF "members" \in DOMAIN geometry THEN geometry.members ELSE 2

\* Object.keys(properties).length
PropertiesWeight(props) ==
    IF "members" \in DOMAIN props THEN props.members
    ELSE Cardinality({k \in KeySet : props.own[k] # Undef}) + (IF props.hasTags THEN 1 ELSE 0)

TagsOnly(th, tl) ==
    [isMap |-> TRUE, own |-> [k \in KeySet |-> Undef], hasTags |-> TRUE,
     tags |-> [k \in TagKeys |-> IF k = "height" THEN th ELSE tl]]

FeatureA ==
    [id |-> "way/1", geometry |-> [type |-> "Polygon", polygons |-> <<1>>],
     properties |-> TagsOnly(Str(9), Undef)]
FeatureB ==
    [id |-> "relation/2", geometry |-> [type |-> "MultiPolygon", polygons |-> <<2, 1>>],
     properties |-> TagsOnly(Undef, Str(4))]
\* the feature way/1 as a later response may hold it
FeatureA2 ==
    [id |-> "way/1", geometry |-> [type |-> "Polygon", polygons |-> <<2>>],
     properties |-> TagsOnly(Undef, Undef)]
Features == {FeatureA, FeatureB, FeatureA2}

\* the most features a response holds
MaxFeatures == 2

\* feature arrays with pairwise different ids
FeatureArrays ==
    {fs \in UNION {[1..n -> Features] : n \in 0..MaxFeatures} :
        \A i, j \in 1..Len(fs) : i # j => fs[i].id # fs[j].id}

\* what osmtogeojson returns
OverpassGeoJSON == {[kind |-> "FeatureCollection", crs |-> "none", features |-> fs] :
                        fs \in FeatureArrays}

\* what a GeoJSON file holds: an empty array, or a feature collection
FilePayloads ==
    {[kind |-> "array", crs |-> "none", features |-> <<>>]} \cup
    {[kind |-> "FeatureCollection", crs |-> c, features |-> fs] :
        c \in {"none", "unsupported"}, fs \in FeatureArrays}

(***************************************************************************)
(* The layer's configuration and shapeConfigurationCallback.               *)
(***************************************************************************)
\* configuration.heatmap when the layer's configuration has none
NoHeatmap == [present |-> FALSE, enabled |-> Undef, hasThresholds |-> FALSE,
              thresholds |-> <<>>]
\* the interior colour of the attributes of a configuration that sets none
PlainColour == Colour(3, 0, 4, 12)

\* a configuration of extrude and altitude, without heatmap or altitudeMode
PlainConfiguration(extrude, alt) ==
    [extrude |-> extrude, altitude |-> alt, heatmap |-> NoHeatmap,
     altitudeMode |-> "", attributes |-> [interiorColor |-> PlainColour]]

LayerConfigurations ==
    {PlainConfiguration(Bool(FALSE), NoAltitude),
     PlainConfiguration(Bool(TRUE), [present |-> TRUE, type |-> "osm", value |-> Undef]),
     PlainConfiguration(Num(2), NoAltitude)}

\* the thresholds of a heatmap that names none
DefaultThresholds == <<0, 15, 900>>

\* OSMBuildingLayer.prototype.shapeConfigurationCallback: the fields
\* setAltitude, setColor and the parsers read.  The attributes are those of
\* the configuration OSMLayer's callback returns; an altitudeMode of "" is
\* one that is not set.
ShapeConfigurationCallback(conf) ==
    [extrude |-> IF Truthy(conf.extrude) THEN conf.extrude ELSE Bool(FALSE),
     heatmap |->
        IF conf.heatmap.present
        THEN [present |-> TRUE,
              enabled |-> IF Truthy(conf.heatmap.enabled) THEN conf.heatmap.enabled
                          ELSE Bool(FALSE),
              hasThresholds |-> TRUE,
              thresholds |-> IF conf.heatmap.hasThresholds THEN conf.heatmap.thresholds
                             ELSE DefaultThresholds]
        ELSE NoHeatmap,
     altitude |->
        IF conf.altitude.present
        THEN [present |-> TRUE,
              type |-> conf.altitude.type,
              value |-> IF Truthy(conf.altitude.value) THEN conf.altitude.value
                        ELSE Num(DefaultAltitude)]
        ELSE NoAltitude,
     altitudeMode |-> IF conf.altitudeMode # "" THEN conf.altitudeMode
                      ELSE "relativeToGround",
     attributes |-> conf.attributes]

\* x == true
LooseEqualsTrue(x) == x.t \in {"num", "str", "bool"} /\ x.v = 1

(***************************************************************************)
(* GeoJSONParserTriangulationOSM                                           *)
(***************************************************************************)
\* one mesh per ring of the boundaries
SurfaceMeshes(surface, alt, id, polygon, rings) ==
    [r \in 1..rings |->
        [surface |-> surface, altitude |-> alt, id |-> id, polygon |-> polygon, ring |-> r]]

\* the body of the loop over the polygons: lateralSurfaces when extruded, then topSurface
PolygonMeshes(conf, alt, id, polygon, rings) ==
    (IF LooseEqualsTrue(conf.extrude)
     THEN SurfaceMeshes("lateral", alt, id, polygon, rings) ELSE <<>>)
    \o SurfaceMeshes("top", alt, id, polygon, rings)

RECURSIVE GeometryMeshes(_, _, _, _, _)
GeometryMeshes(conf, alt, id, polygons, from) ==
    IF from > Len(polygons) THEN <<>>
    ELSE PolygonMeshes(conf, alt, id, from, polygons[from])
         \o GeometryMeshes(conf, alt, id, polygons, from + 1)

\* addRenderablesForPolygon / addRenderablesForMultiPolygon with a layer and a
\* geometry: what is raised and the renderables added to the layer
AddRenderablesForGeometry(rawConf, crs, feature) ==
    LET conf == ShapeConfigurationCallback(rawConf)
        r    == SetAltitude(feature.properties, conf)
    IN  IF r.raised # "none" THEN [raised |-> r.raised, meshes |-> <<>>]
        ELSE IF crs \in {"none", "supported"}
        THEN [raised |-> "none",
              meshes |-> GeometryMeshes(conf, r.altitude, feature.id,
                                        feature.geometry.polygons, 1)]
        ELSE [raised |-> "none", meshes |-> <<>>]

\* GeoJSONParser.load on a feature collection: the features in array order,
\* up to the first that raises
RECURSIVE Load(_, _, _, _)
Load(rawConf, crs, features, acc) ==
    IF features = <<>> THEN acc
    ELSE LET one == AddRenderablesForGeometry(rawConf, crs, Head(features))
         IN  IF one.raised # "none"
             THEN [acc EXCEPT !.raised = one.raised]
             ELSE Load(rawConf, crs, Tail(features),
                       [raised |-> "none",
                        renderables |-> acc.renderables \o one.meshes,
                        events |-> Append(acc.events,
                                          [ev |-> "process", id |-> Head(features).id])])

NewRenderableLayer == [raised |-> "none", renderables |-> <<>>, events |-> <<>>]

(***************************************************************************)
(* addRenderablesForPolygon and addRenderablesForMultiPolygon of           *)
(* GeoJSONParserOSM and of GeoJSONParserTriangulationOSM, called with any  *)
(* arguments.  The parser has a layer of its own (this.layer); the layer   *)
(* argument is absent, that layer, or another one.                         *)
(***************************************************************************)
\* What `throw new ArgumentError(Logger.logMessage(...))` raises: neither
\* module binds ArgumentError or Logger, and the modules are strict code.
MissingArgument == "ReferenceError"

\* shapeConfigurationCallback, new BuildingShape, setAltitude and, for an
\* extruded shape with the heatmap enabled, setColor
ResolveShape(rawConf, props) ==
    LET conf == ShapeConfigurationCallback(rawConf)
        r    == SetAltitude(props, conf)
        heat == Truthy(conf.extrude) /\ conf.heatmap.present /\ Truthy(conf.heatmap.enabled)
    IN  [raised |-> r.raised, conf |-> conf, altitude |-> r.altitude,
         colour |-> IF r.raised = "none" /\ heat THEN SetColor(r.altitude, conf)
                    ELSE conf.attributes.interiorColor]

\* GeoJSONParserOSM: one Polygon or SurfacePolygon per ring of the boundaries
RingShapes(conf, alt, id, polygon, rings) ==
    [r \in 1..rings |->
        [shape |-> IF Truthy(conf.extrude) THEN "Polygon" ELSE "SurfacePolygon",
         extrude |-> IF Truthy(conf.extrude) THEN conf.extrude ELSE Undef,
         altitude |-> alt, altitudeMode |-> conf.altitudeMode,
         id |-> id, polygon |-> polygon, ring |-> r]]

RECURSIVE GeometryShapes(_, _, _, _, _)
GeometryShapes(conf, alt, id, polygons, from) ==
    IF from > Len(polygons) THEN <<>>
    ELSE RingShapes(conf, alt, id, from, polygons[from])
         \o GeometryShapes(conf, alt, id, polygons, from + 1)

Thrown(kind, callbacks, colour) ==
    [raised |-> kind, callbacks |-> callbacks, colour |-> colour,
     own |-> <<>>, other |-> <<>>]

\* the call with the coordinate-reference system never asked
AddRenderablesWhateverCrs(call) ==
    IF call.layer \in {"null", "undefined"}
    THEN Thrown(MissingArgument, 0, call.conf.attributes.interiorColor)
    ELSE IF call.geometry \in {"null", "undefined"}
    THEN Thrown(MissingArgument, 0, call.conf.attributes.interiorColor)
    ELSE LET s == ResolveShape(call.conf, call.feature.properties)
             f == call.feature
         IN  IF s.raised # "none"
             THEN Thrown(s.raised, 1, call.conf.attributes.interiorColor)
             ELSE [raised |-> "none", callbacks |-> 1, colour |-> s.colour,
                   own |-> IF call.variant = "extruded"
                           THEN GeometryShapes(s.conf, s.altitude, f.id,
                                               f.geometry.polygons, 1)
                           ELSE GeometryMeshes(s.conf, s.altitude, f.id,
                                               f.geometry.polygons, 1),
                   other |-> <<>>]

\* addRenderablesForPolygon / addRenderablesForMultiPolygon(layer, geometry,
\* properties): what is raised, how often the callback ran, the interior
\* colour of the configuration afterwards, and the renderables added to the
\* parser's own layer and to another layer given as the argument
AddRenderables(call) ==
    IF call.layer \in {"null", "undefined"}
    THEN Thrown(MissingArgument, 0, call.conf.attributes.interiorColor)
    ELSE IF call.geometry \in {"null", "undefined"}
    THEN Thrown(MissingArgument, 0, call.conf.attributes.interiorColor)
    ELSE LET s == ResolveShape(call.conf, call.feature.properties)
             f == call.feature
         IN  IF s.raised # "none"
             THEN Thrown(s.raised, 1, call.conf.attributes.interiorColor)
             ELSE [raised |-> "none", callbacks |-> 1, colour |-> s.colour,
                   own |-> IF call.crs \notin {"none", "supported"} THEN <<>>
                           ELSE IF call.variant = "extruded"
                           THEN GeometryShapes(s.conf, s.altitude, f.id,
                                               f.geometry.polygons, 1)
                           ELSE GeometryMeshes(s.conf, s.altitude, f.id,
                                               f.geometry.polygons, 1),
                   other |-> <<>>]

\* the configurations of the layer the parser's callback belongs to
ParserHeatmaps ==
    {NoHeatmap,
     [present |-> TRUE, enabled |-> Bool(TRUE), hasThresholds |-> FALSE, thresholds |-> <<>>],
     [present |-> TRUE, enabled |-> Bool(TRUE), hasThresholds |-> TRUE,
      thresholds |-> <<0, 10, 20, 30>>],
     [present |-> TRUE, enabled |-> Undef, hasThresholds |-> FALSE, thresholds |-> <<>>]}
ParserAltitudes ==
    {NoAltitude,
     [present |-> TRUE, type |-> "osm", value |-> Undef],
     [present |-> TRUE, type |-> "number", value |-> Num(20)]}
ParserExtrudes == {Bool(FALSE), Bool(TRUE), Num(1), Num(2)}
ParserConfigurations ==
    {[extrude |-> e, altitude |-> a, heatmap |-> h, altitudeMode |-> m,
      attributes |-> [interiorColor |-> c]] :
        e \in ParserExtrudes, a \in ParserAltitudes, h \in ParserHeatmaps,
        m \in {"", "absolute"}, c \in {PlainColour, Colour(9, 7, 4, 6)}}

\* the calls: the method is that of the feature's geometry type; a call
\* without geometry still has the feature's properties
ParserCalls ==
    {[variant |-> v, method |-> f.geometry.type, layer |-> l, geometry |-> g,
      feature |-> f, crs |-> c, conf |-> conf] :
        v \in {"extruded", "triangulated"}, f \in Features,
        l \in {"null", "undefined", "own", "other"},
        g \in {"null", "undefined", "given"},
        c \in {"none", "supported", "unsupported"},
        conf \in ParserConfigurations}

ParserInit ==
    /\ parserCall \in ParserCalls
    /\ parserLayers = [own |-> <<>>, other |-> <<>>]
    /\ parserOut = [pc |-> "idle", raised |-> "none", callbacks |-> 0,
                    colour |-> parserCall.conf.attributes.interiorColor]

ParserIdle ==
    /\ parserCall = [variant |-> "triangulated", method |-> "Polygon", layer |-> "own",
                     geometry |-> "given", feature |-> FeatureA, crs |-> "none",
                     conf |-> PlainConfiguration(Bool(FALSE), NoAltitude)]
    /\ parserLayers = [own |-> <<>>, other |-> <<>>]
    /\ parserOut = [pc |-> "off", raised |-> "none", callbacks |-> 0,
                    colour |-> PlainColour]

\* one call of addRenderablesForPolygon or addRenderablesForMultiPolygon
CallAddRenderables ==
    /\ parserOut.pc = "idle"
    /\ LET r == AddRenderables(parserCall)
       IN  /\ parserOut' = [pc |-> IF r.raised = "none" THEN "returned" ELSE "threw",
                            raised |-> r.raised, callbacks |-> r.callbacks,
                            colour |-> r.colour]
           /\ parserLayers' = [own |-> parserLayers.own \o r.own,
                               other |-> parserLayers.other \o r.other]
    /\ UNCHANGED parserCall
    /\ UNCHANGED <<shapeVars, sectorVars, layerVars>>

(***************************************************************************)
(* OSMBuildingLayer                                                        *)
(***************************************************************************)
\* The source descriptors a layer is constructed with.  An array is truthy
\* whatever its length; hasPath says that path is a non-empty string.
CoordinateArrays == {<<>>, <<1, 2, 3>>, <<10, 50, 11, 51>>, <<1, 2, 3, 4, 5>>}
Sources ==
    {[type |-> t, hasCoordinates |-> TRUE, coordinates |-> c, hasPath |-> p] :
        t \in {"boundingBox", "GeoJSONFile", "other"}, c \in CoordinateArrays,
        p \in BOOLEAN}
    \cup
    {[type |-> t, hasCoordinates |-> FALSE, coordinates |-> <<>>, hasPath |-> p] :
        t \in {"boundingBox", "GeoJSONFile", "other"}, p \in BOOLEAN}

\* the sectors addBySector is called with
SectorArguments ==
    LET ss == CreateSectors(<<0, 0, 20000, 10000>>)
    IN  {ss[i] : i \in 1..Len(ss)}

\* the request data of an Overpass query: the coordinates of the way[building]
\* clause and of the relation[building] clause, as written into the string
OverpassRequest(strategy, way, relation) ==
    [strategy |-> strategy, url |-> "overpass", way |-> way, relation |-> relation]

FileRequest == [strategy |-> "GeoJSONFile", url |-> "path", way |-> <<>>, relation |-> <<>>]

\* addByBoundingBox with the relation clause in the order of the coordinates
AddByBoundingBoxRelationUnswapped(src, bb) ==
    IF Len(src.coordinates) # 4
    THEN [raised |-> "ArgumentError", boundingBox |-> bb, requests |-> <<>>]
    ELSE LET b == src.coordinates
         IN  [raised |-> "none", boundingBox |-> b,
              requests |-> <<OverpassRequest("boundingBox",
                                             <<b[2], b[1], b[4], b[3]>>,
                                             <<b[1], b[2], b[3], b[4]>>)>>]

\* addByBoundingBox with the member set before the coordinates are counted
AddByBoundingBoxAssignsFirst(src, bb) ==
    IF Len(src.coordinates) # 4
    THEN [raised |-> "ArgumentError", boundingBox |-> src.coordinates, requests |-> <<>>]
    ELSE LET b == src.coordinates
         IN  [raised |-> "none", boundingBox |-> b,
              requests |-> <<OverpassRequest("boundingBox",
                                             <<b[2], b[1], b[4], b[3]>>,
                                             <<b[2], b[1], b[4], b[3]>>)>>]

\* addByBoundingBox up to the $.ajax call
AddByBoundingBox(src, bb) ==
    IF Len(src.coordinates) # 4
    THEN [raised |-> "ArgumentError", boundingBox |-> bb, requests |-> <<>>]
    ELSE LET b == src.coordinates
         IN  [raised |-> "none", boundingBox |-> b,
              requests |-> <<OverpassRequest("boundingBox",
                                             <<b[2], b[1], b[4], b[3]>>,
                                             <<b[2], b[1], b[4], b[3]>>)>>]

\* addByGeoJSONFile up to the $.ajax call
AddByGeoJSONFile(src, bb) ==
    [raised |-> "none", boundingBox |-> bb, requests |-> <<FileRequest>>]

\* OSMBuildingLayer.prototype.add
AddCall(src, bb) ==
    IF src.type = "boundingBox" /\ src.hasCoordinates
    THEN AddByBoundingBox(src, bb)
    ELSE IF src.type = "GeoJSONFile" /\ src.hasPath
    THEN AddByGeoJSONFile(src, bb)
    ELSE [raised |-> "ArgumentError", boundingBox |-> bb, requests |-> <<>>]

\* addBySector up to the $.ajax call
AddBySectorCall(sector) ==
    OverpassRequest("sector",
        <<sector.minLatitude, sector.minLongitude, sector.maxLatitude, sector.maxLongitude>>,
        <<sector.minLatitude, sector.minLongitude, sector.maxLatitude, sector.maxLongitude>>)

\* the keys of the entries of before, put included, that after no longer
\* holds, oldest first, as events of the trace
Evicted(ev, before, key, after) ==
    LET all  == Append(WithoutKey(before, key), [key |-> key])
        gone == SelectSeq(all, LAMBDA e : e.key \notin CacheKeys(after))
    IN  [i \in 1..Len(gone) |-> [ev |-> ev, id |-> gone[i].key]]

\* the loop of cache with both caches sized as the properties cache is
RECURSIVE CacheFeaturesOneCapacity(_, _)
CacheFeaturesOneCapacity(st, features) ==
    IF features = <<>> THEN st
    ELSE LET f == Head(features)
             g == PutEntry(st.geometryCache, f.id, f.geometry, GeometryWeight(f.geometry),
                           PropertiesCapacity, PropertiesLowWater)
             p == PutEntry(st.propertiesCache, f.id, f.properties,
                           PropertiesWeight(f.properties),
                           PropertiesCapacity, PropertiesLowWater)
         IN  CacheFeaturesOneCapacity(
                [st EXCEPT
                    !.geometryCache = g,
                    !.propertiesCache = p,
                    !.trace = Append(@, [ev |-> "cache", id |-> f.id])
                              \o Evicted("evictGeometry", st.geometryCache, f.id, g)
                              \o Evicted("evictProperties", st.propertiesCache, f.id, p)],
                Tail(features))

\* the loop of cache with the weight of the properties given for the geometry too
RECURSIVE CacheFeaturesOneWeight(_, _)
CacheFeaturesOneWeight(st, features) ==
    IF features = <<>> THEN st
    ELSE LET f == Head(features)
             g == PutEntry(st.geometryCache, f.id, f.geometry,
                           PropertiesWeight(f.properties),
                           GeometryCapacity, GeometryLowWater)
             p == PutEntry(st.propertiesCache, f.id, f.properties,
                           PropertiesWeight(f.properties),
                           PropertiesCapacity, PropertiesLowWater)
         IN  CacheFeaturesOneWeight(
                [st EXCEPT
                    !.geometryCache = g,
                    !.propertiesCache = p,
                    !.trace = Append(@, [ev |-> "cache", id |-> f.id])
                              \o Evicted("evictGeometry", st.geometryCache, f.id, g)
                              \o Evicted("evictProperties", st.propertiesCache, f.id, p)],
                Tail(features))

\* the loop of OSMBuildingLayer.prototype.cache; the trace also names the
\* entries each put made the caches drop
RECURSIVE CacheFeatures(_, _)
CacheFeatures(st, features) ==
    IF features = <<>> THEN st
    ELSE LET f == Head(features)
             g == PutEntry(st.geometryCache, f.id, f.geometry, GeometryWeight(f.geometry),
                           GeometryCapacity, GeometryLowWater)
             p == PutEntry(st.propertiesCache, f.id, f.properties,
                           PropertiesWeight(f.properties),
                           PropertiesCapacity, PropertiesLowWater)
         IN  CacheFeatures(
                [st EXCEPT
                    !.geometryCache = g,
                    !.propertiesCache = p,
                    !.trace = Append(@, [ev |-> "cache", id |-> f.id])
                              \o Evicted("evictGeometry", st.geometryCache, f.id, g)
                              \o Evicted("evictProperties", st.propertiesCache, f.id, p)],
                Tail(features))

\* OSMBuildingLayer.prototype.cache(dataOverpassGeoJSON): its first argument
\* is read as the feature collection; a string has no features
Cache(st, arg) ==
    IF arg.kind = "string" THEN [st EXCEPT !.raised = "TypeError"]
    ELSE CacheFeatures(st, arg.features)

\* new RenderableLayer, parser.load(null, callback, layer), worldWindow.addLayer(layer)
LoadAndAttach(st, rawConf, data) ==
    LET l == Load(rawConf, data.crs, data.features, NewRenderableLayer)
    IN  IF l.raised # "none"
        THEN [st EXCEPT !.raised = l.raised, !.trace = @ \o l.events]
        ELSE [st EXCEPT !.wwLayers = Append(@, l.renderables),
                        !.trace = @ \o l.events \o <<[ev |-> "attach", id |-> ""]>>]

\* the success callback with the layer attached before it is loaded
BoundingBoxSuccessAttachFirst(st, rawConf, geojson) ==
    LET c == Cache(st, geojson)
        l == Load(rawConf, geojson.crs, geojson.features, NewRenderableLayer)
    IN  [c EXCEPT !.wwLayers = Append(@, l.renderables),
                  !.trace = @ \o <<[ev |-> "attach", id |-> ""]>> \o l.events]

\* the success callback with the features the geometry cache holds left out
BoundingBoxSuccessSkipCached(st, rawConf, geojson) ==
    LET c == Cache(st, geojson)
        fresh == SelectSeq(geojson.features,
                           LAMBDA f : f.id \notin CacheKeys(st.geometryCache))
    IN  LoadAndAttach(c, rawConf, [geojson EXCEPT !.features = fresh])

\* the success callback of addByBoundingBox, on the converted response
BoundingBoxSuccess(st, rawConf, geojson) ==
    LET c == Cache(st, geojson)
    IN  IF c.raised # "none" THEN c ELSE LoadAndAttach(c, rawConf, geojson)

\* the success callback of addBySector: cache is called with the sector's
\* key as its first argument
SectorSuccess(st, rawConf, geojson) ==
    LET c == Cache(st, [kind |-> "string", crs |-> "none", features |-> <<>>])
    IN  IF c.raised # "none" THEN c ELSE LoadAndAttach(c, rawConf, geojson)

\* the success callback of addByGeoJSONFile
GeoJSONFileSuccess(st, rawConf, data) ==
    IF data.kind = "array" /\ Len(data.features) = 0
    THEN [st EXCEPT !.raised = "ArgumentError"]
    ELSE LoadAndAttach(st, rawConf, data)

\* the error callback dropping what the caches hold
RequestErrorClearing(st) ==
    [st EXCEPT !.raised = "ArgumentError", !.geometryCache = EmptyCache,
               !.propertiesCache = EmptyCache]

\* the error callback of the three requests
RequestError(st) == [st EXCEPT !.raised = "ArgumentError"]

\* the most requests handed to $.ajax in one run
MaxFetches == 2

Started ==
    [geometryCache |-> geometryCache, propertiesCache |-> propertiesCache,
     wwLayers |-> wwLayers, raised |-> "none", trace |-> <<>>]

Without(seq, i) == SubSeq(seq, 1, i - 1) \o SubSeq(seq, i + 1, Len(seq))

LayerInit ==
    /\ source \in Sources
    /\ layerConf \in LayerConfigurations
    /\ boundingBox = <<>>
    /\ geometryCache = EmptyCache
    /\ propertiesCache = EmptyCache
    /\ pending = <<>>
    /\ fetchLog = <<>>
    /\ wwLayers = <<>>
    /\ lastOp = [op |-> "new", strategy |-> "none", raised |-> "none", features |-> <<>>]
    /\ trace = <<>>

LayerIdle ==
    /\ source = [type |-> "other", hasCoordinates |-> FALSE, coordinates |-> <<>>,
                 hasPath |-> FALSE]
    /\ layerConf = PlainConfiguration(Bool(FALSE), NoAltitude)
    /\ boundingBox = <<>>
    /\ geometryCache = EmptyCache
    /\ propertiesCache = EmptyCache
    /\ pending = <<>>
    /\ fetchLog = <<>>
    /\ wwLayers = <<>>
    /\ lastOp = [op |-> "off", strategy |-> "none", raised |-> "none", features |-> <<>>]
    /\ trace = <<>>

\* layer.add()
Add ==
    /\ Len(fetchLog) < MaxFetches
    /\ LET r == AddCall(source, boundingBox)
       IN  /\ boundingBox' = r.boundingBox
           /\ pending' = pending \o r.requests
           /\ fetchLog' = fetchLog \o r.requests
           /\ lastOp' = [op |-> "add", strategy |-> source.type, raised |-> r.raised,
                       features |-> <<>>]
    /\ trace' = <<>>
    /\ UNCHANGED <<source, layerConf, geometryCache, propertiesCache, wwLayers>>
    /\ UNCHANGED <<shapeVars, sectorVars, parserVars>>

\* layer.addBySector(sector)
AddBySector ==
    /\ Len(fetchLog) < MaxFetches
    /\ \E sector \in SectorArguments :
          /\ pending' = Append(pending, AddBySectorCall(sector))
          /\ fetchLog' = Append(fetchLog, AddBySectorCall(sector))
    /\ lastOp' = [op |-> "addBySector", strategy |-> "sector", raised |-> "none",
                features |-> <<>>]
    /\ trace' = <<>>
    /\ UNCHANGED <<source, layerConf, boundingBox, geometryCache, propertiesCache, wwLayers>>
    /\ UNCHANGED <<shapeVars, sectorVars, parserVars>>

\* the callback of request i ends as r says; features is the array it was given
Finish(i, r, op, features) ==
    /\ geometryCache' = r.geometryCache
    /\ propertiesCache' = r.propertiesCache
    /\ wwLayers' = r.wwLayers
    /\ trace' = r.trace
    /\ lastOp' = [op |-> op, strategy |-> pending[i].strategy, raised |-> r.raised,
                  features |-> features]
    /\ pending' = Without(pending, i)
    /\ UNCHANGED <<source, layerConf, boundingBox, fetchLog>>
    /\ UNCHANGED <<shapeVars, sectorVars, parserVars>>

\* a request of addByBoundingBox succeeds
SuccessBoundingBox ==
    \E i \in 1..Len(pending) :
        /\ pending[i].strategy = "boundingBox"
        /\ \E geojson \in OverpassGeoJSON :
              Finish(i, BoundingBoxSuccess(Started, layerConf, geojson), "success",
                     geojson.features)

\* a request of addBySector succeeds
SuccessSector ==
    \E i \in 1..Len(pending) :
        /\ pending[i].strategy = "sector"
        /\ \E geojson \in OverpassGeoJSON :
              Finish(i, SectorSuccess(Started, layerConf, geojson), "success",
                     geojson.features)

\* a request of addByGeoJSONFile succeeds
SuccessGeoJSONFile ==
    \E i \in 1..Len(pending) :
        /\ pending[i].strategy = "GeoJSONFile"
        /\ \E data \in FilePayloads :
              Finish(i, GeoJSONFileSuccess(Started, layerConf, data), "success",
                     data.features)

\* a request fails
FetchError ==
    \E i \in 1..Len(pending) : Finish(i, RequestError(Started), "error", <<>>)

(***************************************************************************)
(* cache() on responses whose objects have many own fields, enough to fill *)
(* the caches.                                                             *)
(***************************************************************************)
\* the own-field counts of a feature's geometry and properties
HeavyMembers == {<<2, 0>>, <<12000, 20000>>, <<30001, 50001>>}
HeavyIds == {"way/1", "relation/2", "way/3"}

HeavyFeature(id, m) ==
    [id |-> id,
     geometry |-> [type |-> "Polygon", polygons |-> <<1>>, members |-> m[1]],
     properties |-> [members |-> m[2]]]

HeavyFeatures == {HeavyFeature(id, m) : id \in HeavyIds, m \in HeavyMembers}

HeavyCollections ==
    {[kind |-> "FeatureCollection", crs |-> "none", features |-> fs] :
        fs \in {gs \in UNION {[1..n -> HeavyFeatures] : n \in 0..MaxFeatures} :
                    \A i, j \in 1..Len(gs) : i # j => gs[i].id # gs[j].id}}

\* layer.cache(dataOverpassGeoJSON) on the converted response of a request
CallCache ==
    /\ \E geojson \in HeavyCollections :
          LET r == Cache(Started, geojson)
          IN  /\ geometryCache' = r.geometryCache
              /\ propertiesCache' = r.propertiesCache
              /\ trace' = r.trace
              /\ lastOp' = [op |-> "cache", strategy |-> "none", raised |-> r.raised,
                            features |-> geojson.features]
    /\ UNCHANGED <<source, layerConf, boundingBox, pending, fetchLog, wwLayers>>
    /\ UNCHANGED <<shapeVars, sectorVars, parserVars>>

(***************************************************************************)
(* Specifications                                                          *)
(***************************************************************************)
\* the layer and its requests
Init == ShapeIdle /\ SectorIdle /\ LayerInit /\ ParserIdle
Next ==
    \/ Add
    \/ AddBySector
    \/ SuccessBoundingBox
    \/ SuccessSector
    \/ SuccessGeoJSONFile
    \/ FetchError
Spec == Init /\ [][Next]_vars

\* one shape, one call of setAltitude
AltitudeInit == ShapeInit /\ SectorIdle /\ LayerIdle /\ ParserIdle
AltitudeNext == CallSetAltitude
AltitudeSpec == AltitudeInit /\ [][AltitudeNext]_vars

\* one call of createSectors
SectorsInit == ShapeIdle /\ SectorInit /\ LayerIdle /\ ParserIdle
SectorsNext == CallCreateSectors
SectorsSpec == SectorsInit /\ [][SectorsNext]_vars

\* one shape, one call of setColor
ColorInit == ColourInit /\ SectorIdle /\ LayerIdle /\ ParserIdle
ColorNext == CallSetColor
ColorSpec == ColorInit /\ [][ColorNext]_vars

\* one parser, one call of addRenderablesForPolygon / MultiPolygon
ParserSpecInit == ShapeIdle /\ SectorIdle /\ LayerIdle /\ ParserInit
ParserNext == CallAddRenderables
ParserSpec == ParserSpecInit /\ [][ParserNext]_vars

\* the two caches under calls of cache()
CacheInit == ShapeIdle /\ SectorIdle /\ LayerIdle /\ ParserIdle
CacheNext == CallCache
CacheSpec == CacheInit /\ [][CacheNext]_vars

(***************************************************************************)
(* Properties of setAltitude (AltitudeSpec)                                *)
(***************************************************************************)
\* what "building:levels" is worth in metres: three per level
LevelsInMetres(x) == IF x.t \in {"num", "str"} THEN Num(3 * x.v) ELSE NaN

\* the four sources of an "osm" altitude, in the order of the fallback chain:
\* the field that is looked at, and the value it yields
OsmChain(props) ==
    <<[field |-> props.own["height"], yields |-> props.own["height"]],
      [field |-> props.own["building:levels"],
       yields |-> LevelsInMetres(props.own["building:levels"])],
      [field |-> IF props.hasTags THEN props.tags["height"] ELSE Undef,
       yields |-> IF props.hasTags THEN props.tags["height"] ELSE Undef],
      [field |-> IF props.hasTags THEN props.tags["building:levels"] ELSE Undef,
       yields |-> IF props.hasTags THEN LevelsInMetres(props.tags["building:levels"])
                  ELSE Undef]>>

FirstOfChain(chain) ==
    LET present == {i \in 1..Len(chain) : Truthy(chain[i].field)}
    IN  IF present = {} THEN Num(15)
        ELSE chain[CHOOSE i \in present : \A j \in present : i <= j].yields

OsmCall ==
    /\ shapePc # "new"
    /\ Truthy(configuration.extrude)
    /\ configuration.altitude.present
    /\ configuration.altitude.type = "osm"

\* C1: for an altitude configuration of type "osm" with extrude set and any
\* properties mapping (with or without tags, with any of the four fields
\* present or not), setAltitude does not fail and the altitude is the first
\* present, truthy one of height, building:levels*3, tags.height,
\* tags["building:levels"]*3, and 15 when there is none.
C1_OsmFallbackChain ==
    (OsmCall /\ properties.isMap) =>
        /\ shapePc = "set"
        /\ altitude = FirstOfChain(OsmChain(properties))

\* C1: a shape whose only usable field is tags["building:levels"] = 2 got 6
C1_Witness ==
    /\ OsmCall /\ properties.isMap /\ shapePc = "set"
    /\ ~Truthy(properties.own["height"])
    /\ ~Truthy(properties.own["building:levels"])
    /\ properties.hasTags
    /\ ~Truthy(properties.tags["height"])
    /\ properties.tags["building:levels"] = Num(2)
    /\ altitude = Num(6)

\* C2: setAltitude yields exactly 0 whenever configuration.extrude is false,
\* whatever the altitude configuration (absent, number, osm, property, other)
\* and whatever the properties.
C2_FlatIsZero ==
    (shapePc # "new" /\ configuration.extrude = Bool(FALSE)) =>
        (shapePc = "set" /\ altitude = Num(0))

\* C2: a flat shape with a usable number altitude of 20 got 0
C2_Witness ==
    /\ shapePc = "set"
    /\ configuration.extrude = Bool(FALSE)
    /\ configuration.altitude.present
    /\ configuration.altitude.type = "number"
    /\ configuration.altitude.value = Num(20)
    /\ properties.isMap
    /\ properties.own["height"] = Num(4)
    /\ altitude = Num(0)

\* C3: with extrude set, the altitude is 15 when configuration.altitude is
\* absent; for type "number" it is the configured value when that is truthy
\* and 15 otherwise; for type "property" (on a properties mapping) it is
\* properties[value] when the configured key and that property are both
\* truthy and 15 otherwise.
C3_NumberPropertyAbsent ==
    (shapePc # "new" /\ Truthy(configuration.extrude)) =>
        /\ ~configuration.altitude.present =>
              (shapePc = "set" /\ altitude = Num(15))
        /\ (configuration.altitude.present /\ configuration.altitude.type = "number") =>
              /\ shapePc = "set"
              /\ altitude = IF Truthy(configuration.altitude.value)
                            THEN configuration.altitude.value ELSE Num(15)
        /\ (configuration.altitude.present /\ configuration.altitude.type = "property"
                /\ properties.isMap) =>
              /\ shapePc = "set"
              /\ altitude =
                    IF /\ Truthy(configuration.altitude.value)
                       /\ configuration.altitude.value.t = "key"
                       /\ Truthy(properties.own[PropertyKeys[configuration.altitude.value.v]])
                    THEN properties.own[PropertyKeys[configuration.altitude.value.v]]
                    ELSE Num(15)

\* C3: a shape whose configured property "area" is 0 got 15
C3_Witness ==
    /\ shapePc = "set"
    /\ Truthy(configuration.extrude)
    /\ configuration.altitude.present
    /\ configuration.altitude.type = "property"
    /\ configuration.altitude.value = Key(3)
    /\ properties.isMap
    /\ properties.own["area"] = Num(0)
    /\ altitude = Num(15)

(***************************************************************************)
(* Properties of createSectors (SectorsSpec)                               *)
(***************************************************************************)
SectorList == {sectors[i] : i \in 1..Len(sectors)}

\* two sectors share a region of positive area
Overlap(a, b) ==
    /\ a.minLongitude < b.maxLongitude /\ b.minLongitude < a.maxLongitude
    /\ a.minLatitude < b.maxLatitude /\ b.minLatitude < a.maxLatitude

PairwiseDisjoint ==
    \A i, j \in 1..Len(sectors) : i # j => ~Overlap(sectors[i], sectors[j])

\* no sector extends past the box
InsideBox(bb) ==
    \A s \in SectorList :
        /\ bb[1] <= s.minLongitude /\ s.maxLongitude <= bb[3]
        /\ bb[2] <= s.minLatitude /\ s.maxLatitude <= bb[4]

\* Every point of the box lies in some sector.  The sectors and the box are
\* rectangles, so it is enough to look at the points whose coordinates are
\* an edge, or midway between two edges; coordinates are doubled to keep
\* the midpoints whole.
EdgesX(bb) == {bb[1], bb[3]} \cup {s.minLongitude : s \in SectorList}
                             \cup {s.maxLongitude : s \in SectorList}
EdgesY(bb) == {bb[2], bb[4]} \cup {s.minLatitude : s \in SectorList}
                             \cup {s.maxLatitude : s \in SectorList}
ProbesX(bb) == {a + b : a, b \in EdgesX(bb)} \cap (2 * bb[1])..(2 * bb[3])
ProbesY(bb) == {a + b : a, b \in EdgesY(bb)} \cap (2 * bb[2])..(2 * bb[4])

Covered(bb) ==
    \A x \in ProbesX(bb), y \in ProbesY(bb) :
        \E s \in SectorList :
            /\ 2 * s.minLongitude <= x /\ x <= 2 * s.maxLongitude
            /\ 2 * s.minLatitude <= y /\ y <= 2 * s.maxLatitude

\* the sectors of the last column end at the box's x2, those of the last row at its y2
ClippedToBox(bb) ==
    \A k \in 1..Len(sectors) :
        /\ (k % SectorsOnXCount(bb) = 0) => sectors[k].maxLongitude = bb[3]
        /\ (k > Len(sectors) - SectorsOnXCount(bb)) => sectors[k].maxLatitude = bb[4]

ExactPartition(bb) ==
    /\ PairwiseDisjoint
    /\ InsideBox(bb)
    /\ Covered(bb)
    /\ ClippedToBox(bb)

\* a box of positive width and height
ProperBox(bb) == bb[1] < bb[3] /\ bb[2] < bb[4]

\* the coordinates have at most five decimals
FiveDecimals(bb) == \A i \in 1..4 : bb[i] % Unit5 = 0

ValidBoundingBoxSource ==
    source.type = "boundingBox" /\ source.hasCoordinates /\ Len(source.coordinates) = 4

Malformed ==
    \/ source.type = "boundingBox" /\ (~source.hasCoordinates \/ Len(source.coordinates) # 4)
    \/ source.type = "GeoJSONFile" /\ ~source.hasPath
    \/ source.type \notin {"boundingBox", "GeoJSONFile"}

\* the step is a call of add()
AddStep == lastOp'.op = "add"
\* the step is the success callback of a request of addByBoundingBox
BoundingBoxSuccessStep == lastOp'.op = "success" /\ lastOp'.strategy = "boundingBox"

\* C5: for a boundingBox source with exactly four coordinates [x1,y1,x2,y2],
\* one call of add() issues exactly one fetch, whose query carries
\* (y1,x1,y2,x2) in the way[building] clause and in the relation[building] clause.
C5_OneFetchLatLonOrder ==
    [][(AddStep /\ ValidBoundingBoxSource) =>
          /\ Len(fetchLog') = Len(fetchLog) + 1
          /\ SubSeq(fetchLog', 1, Len(fetchLog)) = fetchLog
          /\ LET q == fetchLog'[Len(fetchLog')]
                 c == source.coordinates
             IN  /\ q.way = <<c[2], c[1], c[4], c[3]>>
                 /\ q.relation = <<c[2], c[1], c[4], c[3]>>]_vars

\* C5: add() on [10,50,11,51] has issued its one query for (50,10,51,11)
C5_Witness ==
    /\ lastOp.op = "add" /\ lastOp.raised = "none"
    /\ source.type = "boundingBox"
    /\ source.coordinates = <<10, 50, 11, 51>>
    /\ Len(fetchLog) = 1
    /\ fetchLog[1].way = <<50, 10, 51, 11>>
    /\ fetchLog[1].relation = <<50, 10, 51, 11>>

\* C6: add() on a malformed source descriptor (boundingBox without
\* coordinates or with other than 4 of them, GeoJSONFile without a path, any
\* other type) fails with an error at once; no fetch is issued, the
\* boundingBox member and both caches stay as they were and no render layer
\* is attached.
C6_MalformedSourceFailsEarly ==
    [][(AddStep /\ Malformed) =>
          /\ lastOp'.raised = "ArgumentError"
          /\ fetchLog' = fetchLog
          /\ pending' = pending
          /\ boundingBox' = boundingBox
          /\ geometryCache' = geometryCache
          /\ propertiesCache' = propertiesCache
          /\ wwLayers' = wwLayers]_vars

\* C6: add() on a boundingBox source of three coordinates has failed
C6_Witness ==
    /\ lastOp.op = "add" /\ lastOp.raised = "ArgumentError"
    /\ source.type = "boundingBox"
    /\ source.coordinates = <<1, 2, 3>>
    /\ boundingBox = <<>>
    /\ fetchLog = <<>>

\* C7: when a fetch ends with a transport error, the request surfaces an
\* error; nothing is cached, processed or attached for it, and both caches
\* and the attached render layers are after the error callback what they
\* were before it.
C7_FailedFetchChangesNothing ==
    [][(lastOp'.op = "error") =>
          /\ lastOp'.raised = "ArgumentError"
          /\ trace' = <<>>
          /\ geometryCache' = geometryCache
          /\ propertiesCache' = propertiesCache
          /\ wwLayers' = wwLayers]_vars

\* C7: a fetch has failed after an earlier one had filled the caches and a layer
C7_Witness ==
    /\ lastOp.op = "error"
    /\ geometryCache # <<>>
    /\ propertiesCache # <<>>
    /\ Len(wwLayers) = 1
    /\ wwLayers[1] # <<>>

\* the events of kind ev in the trace, in order
EventIds(ev) ==
    LET es == SelectSeq(trace, LAMBDA e : e.ev = ev)
    IN  [i \in 1..Len(es) |-> es[i].id]

FeatureIds(features) == [i \in 1..Len(features) |-> features[i].id]

\* C8 as claimed: for every fetch strategy (boundingBox, GeoJSONFile,
\* per-sector), after the success callback of a response every feature of
\* the response has its geometry in the geometry cache and its properties in
\* the properties cache under its id, put there before the features were
\* processed.
C8_EveryStrategyCaches ==
    (lastOp.op = "success") =>
        /\ \A i \in 1..Len(lastOp.features) :
              /\ GetEntry(geometryCache, lastOp.features[i].id)
                    = {lastOp.features[i].geometry}
              /\ GetEntry(propertiesCache, lastOp.features[i].id)
                    = {lastOp.features[i].properties}
        /\ EventIds("cache") = FeatureIds(lastOp.features)
        /\ \A i, j \in 1..Len(trace) :
              (trace[i].ev = "cache" /\ trace[j].ev = "process") => i < j

\* the trace of one success callback of addByBoundingBox for a response
ExpectedTrace(features) ==
    [i \in 1..(2 * Len(features) + 1) |->
        IF i <= Len(features) THEN [ev |-> "cache", id |-> features[i].id]
        ELSE IF i <= 2 * Len(features)
        THEN [ev |-> "process", id |-> features[i - Len(features)].id]
        ELSE [ev |-> "attach", id |-> ""]]

\* the features the renderables of a layer belong to, without repetition
RECURSIVE Owners(_)
Owners(renderables) ==
    IF renderables = <<>> THEN <<>>
    ELSE LET rest == Owners(Tail(renderables))
         IN  IF rest # <<>> /\ Head(rest) = Head(renderables).id THEN rest
             ELSE <<Head(renderables).id>> \o rest

\* C9: within one success callback of a bounding-box fetch, all features
\* are cached, then all are processed in the response's array order into one
\* new render layer, then that layer is attached, with nothing in between:
\* the layer is not attached before the last feature is processed, and
\* exactly one layer is attached per successful response.
C9_CacheProcessAttach ==
    [][BoundingBoxSuccessStep =>
          /\ lastOp'.raised = "none"
          /\ trace' = ExpectedTrace(lastOp'.features)
          /\ Len(wwLayers') = Len(wwLayers) + 1
          /\ SubSeq(wwLayers', 1, Len(wwLayers)) = wwLayers
          /\ Owners(wwLayers'[Len(wwLayers')]) = FeatureIds(lastOp'.features)]_vars

\* C9: a response of two features has been cached, processed and attached
C9_Witness ==
    /\ lastOp.op = "success" /\ lastOp.strategy = "boundingBox"
    /\ lastOp.features = <<FeatureB, FeatureA>>
    /\ Len(trace) = 5
    /\ trace[5].ev = "attach"
    /\ Len(wwLayers) = 1

\* the caches hold features of an earlier successful request
HoldsFeatures == geometryCache # <<>> /\ propertiesCache # <<>>

\* C10 as claimed: a repeated add() for a bounding box whose features are
\* already held in the caches from an earlier successful request issues no
\* new fetch, and those features are not processed into shapes again.
C10_NoRefetchNoReprocess ==
    [][/\ (AddStep /\ ValidBoundingBoxSource /\ HoldsFeatures) => fetchLog' = fetchLog
       /\ BoundingBoxSuccessStep =>
             \A i \in 1..Len(trace') :
                 trace'[i].ev = "process" => trace'[i].id \notin CacheKeys(geometryCache)]_vars

\* C10 as amended: a repeated add() for a bounding box whose features are
\* already held in the caches issues one more fetch with the query of the
\* first and leaves the caches alone; on its success every feature of the
\* response, held already or not, is put into the caches again (one entry per
\* id, holding the value of this response) and processed into a further
\* render layer.
C10_RefetchAndReprocess ==
    [][/\ (AddStep /\ ValidBoundingBoxSource /\ HoldsFeatures) =>
             /\ Len(fetchLog') = Len(fetchLog) + 1
             /\ \A k \in 1..Len(fetchLog) :
                   fetchLog[k].strategy = "boundingBox" =>
                       fetchLog'[Len(fetchLog')] = fetchLog[k]
             /\ geometryCache' = geometryCache
             /\ propertiesCache' = propertiesCache
       /\ (BoundingBoxSuccessStep /\ HoldsFeatures) =>
             /\ EventIds("process")' = FeatureIds(lastOp'.features)
             /\ Len(wwLayers') = Len(wwLayers) + 1
             /\ \A i \in 1..Len(lastOp'.features) :
                   /\ GetEntry(geometryCache', lastOp'.features[i].id)
                         = {lastOp'.features[i].geometry}
                   /\ Cardinality({k \in 1..Len(geometryCache') :
                         geometryCache'[k].key = lastOp'.features[i].id}) = 1]_vars

\* C10: way/1 was cached and rendered by a first request, and a second
\* add() has fetched it and rendered it again
C10_Witness ==
    /\ lastOp.op = "success" /\ lastOp.strategy = "boundingBox"
    /\ Len(fetchLog) = 2
    /\ fetchLog[1] = fetchLog[2]
    /\ Len(wwLayers) = 2
    /\ wwLayers[1] # <<>> /\ wwLayers[1] = wwLayers[2]
    /\ lastOp.features = <<FeatureA>>

(***************************************************************************)
(* Properties of the caches (CacheSpec)                                    *)
(***************************************************************************)
\* the sum of the weights of the entries a cache holds
RECURSIVE HeldWeight(_, _)
HeldWeight(entries, n) ==
    IF n = 0 THEN 0 ELSE entries[n].weight + HeldWeight(entries, n - 1)

\* C11: after any sequence of responses passed through cache(), whatever
\* the weights of the entries (the count of own fields of the stored object,
\* weights above the capacity and re-puts of an id already held included),
\* the geometry cache holds a total weight of at most 30000 and the
\* properties cache one of at most 50000.
C11_TotalWeightWithinCapacity ==
    /\ HeldWeight(geometryCache, Len(geometryCache)) <= 30000
    /\ HeldWeight(propertiesCache, Len(propertiesCache)) <= 50000

\* C11: a response held a geometry of 30001 fields and, after it, one of
\* 12000 fields; the cache that held entries before is left with the second
\* alone
C11_Witness ==
    /\ lastOp.op = "cache"
    /\ Len(lastOp.features) = 2
    /\ lastOp.features[1].geometry.members = 30001
    /\ lastOp.features[2].geometry.members = 12000
    /\ \E i \in 1..Len(trace) : trace[i].ev = "evictGeometry" /\ trace[i].id = "way/3"
    /\ lastOp.features[1].id = "way/1"
    /\ lastOp.features[2].id = "relation/2"
    /\ Len(geometryCache) = 1
    /\ HeldWeight(geometryCache, Len(geometryCache)) = 12000

\* what a put of (key, value, weight) may leave of the entries: all of them
\* with the put one last when that is within the capacity, or else the
\* longest run of the newest of them that is within the low-water mark
PutOutcomes(entries, key, value, weight, capacity, lowWater) ==
    LET kept == SelectSeq(entries, LAMBDA e : e.key # key)
        all  == Append(kept, [key |-> key, value |-> value, weight |-> weight])
        from(n) == SubSeq(all, n, Len(all))
        w(q) == HeldWeight(q, Len(q))
    IN  IF w(all) <= capacity THEN {all}
        ELSE {from(n) : n \in {m \in 1..(Len(all) + 1) :
                                  /\ w(from(m)) <= lowWater
                                  /\ w(from(m - 1)) > lowWater}}

\* what the puts of the features of a response, in order, may leave
RECURSIVE GeometryOutcomes(_, _)
GeometryOutcomes(entries, features) ==
    IF features = <<>> THEN {entries}
    ELSE UNION {GeometryOutcomes(e, Tail(features)) :
                    e \in PutOutcomes(entries, Head(features).id, Head(features).geometry,
                                      Head(features).geometry.members, 30000, 24000)}

RECURSIVE PropertiesOutcomes(_, _)
PropertiesOutcomes(entries, features) ==
    IF features = <<>> THEN {entries}
    ELSE UNION {PropertiesOutcomes(e, Tail(features)) :
                    e \in PutOutcomes(entries, Head(features).id, Head(features).properties,
                                      Head(features).properties.members, 50000, 40000)}

\* the last feature of the response was put after a put had made the cache evict
PutAfterEviction(tr, ev) ==
    \E i, j \in 1..Len(tr) :
        /\ i < j
        /\ tr[i].ev = ev
        /\ tr[j].ev = "cache"
        /\ \A k \in (j + 1)..Len(tr) : tr[k].ev # "cache"

LastFeature(features) == features[Len(features)]

Brackets(alt, thresholds) ==
    {i \in 0..(Len(thresholds) - 2) :
        /\ alt.t \in {"num", "str"}
        /\ thresholds[i + 1] < alt.v
        /\ alt.v <= thresholds[i + 2]}

\* C15: setColor, for thresholds of length n and step = 0.5/(n-2), with i
\* the bracket such that thresholds[i] < altitude <= thresholds[i+1], sets
\* the interior colour's red channel to baseRed + step*i when baseRed < 0.5
\* and to baseRed - step*(n-i) otherwise, leaves green, blue and alpha
\* unchanged, and leaves the whole colour unchanged when the altitude lies
\* in no bracket (an altitude equal to thresholds[0] included).
C15_RedRampByBracket ==
    [][(shapePc' = "coloured") =>
          LET base  == configuration.attributes.interiorColor
              after == configuration'.attributes.interiorColor
              th    == configuration.heatmap.thresholds
              n     == Len(th)
              step  == 6 \div (n - 2)
          IN  /\ color' = after
              /\ after.green = base.green
              /\ after.blue = base.blue
              /\ after.alpha = base.alpha
              /\ Brackets(altitude, th) = {} => after = base
              /\ \A i \in Brackets(altitude, th) :
                    after.red = IF base.red < 6 THEN base.red + step * i
                                ELSE base.red - step * (n - i)]_vars

\* C15: a shape of altitude 16 under the thresholds [0, 10, 20, 30] lies in
\* bracket 1, and the red 5/12 of its configuration has become 8/12
C15_Witness ==
    /\ shapePc = "coloured"
    /\ configuration.heatmap.thresholds = <<0, 10, 20, 30>>
    /\ altitude = Num(16)
    /\ color.red = 8
    /\ configuration.attributes.interiorColor = color

\* C21: for every base interior colour with red in [0,1], every ordered
\* thresholds list of at least 3 entries (the default [0, 15, 900] included)
\* and every altitude, the red channel of the colour set by setColor stays
\* within [0,1] (0 to 12 twelfths).
C21_RedWithinUnitInterval ==
    (shapePc = "coloured") =>
        /\ color.red >= 0
        /\ color.red <= 2 * ColourHalf

(***************************************************************************)
(* Properties of the parsers (ParserSpec)                                  *)
(***************************************************************************)
Called == parserOut.pc # "idle" /\ parserOut.pc # "off"
LayerAbsent == parserCall.layer \in {"null", "undefined"}
GeometryAbsent == parserCall.geometry \in {"null", "undefined"}
CrsUsable == parserCall.crs \in {"none", "supported"}

\* C13 as claimed: addRenderablesForPolygon and addRenderablesForMultiPolygon,
\* in both parser variants, fail with an ArgumentError when the layer
\* argument or the geometry argument is absent, before the
\* shape-configuration callback is invoked, before any configuration colour
\* is changed and before any shape is added to a layer.
C13_AbsentArgumentIsArgumentError ==
    (Called /\ (LayerAbsent \/ GeometryAbsent)) =>
        /\ parserOut.pc = "threw"
        /\ parserOut.raised = "ArgumentError"
        /\ parserOut.callbacks = 0
        /\ parserOut.colour = parserCall.conf.attributes.interiorColor
        /\ parserLayers.own = <<>>
        /\ parserLayers.other = <<>>

\* the rings of a geometry, polygon by polygon, as <<polygon, ring>>
RECURSIVE RingsOf(_, _)
RingsOf(polygons, from) ==
    IF from > Len(polygons) THEN <<>>
    ELSE [r \in 1..polygons[from] |-> <<from, r>>] \o RingsOf(polygons, from + 1)

CallRings == RingsOf(parserCall.feature.geometry.polygons, 1)

\* C14: when the parser has a coordinate-reference system that reports
\* itself unsupported, processing a Polygon or MultiPolygon feature adds no
\* shape and no mesh to any layer and raises no error; when the CRS is
\* absent or supported, shapes are produced: at least one per ring.
C14_UnsupportedCrsSkipsSilently ==
    (Called /\ ~LayerAbsent /\ ~GeometryAbsent) =>
        /\ parserOut.pc = "returned"
        /\ parserOut.raised = "none"
        /\ ~CrsUsable => (parserLayers.own = <<>> /\ parserLayers.other = <<>>)
        /\ CrsUsable =>
              Len(parserLayers.own) + Len(parserLayers.other) >= Len(CallRings)

\* C14: the extruded-volume parser with an unsupported CRS has returned
\* from a MultiPolygon of three rings, the callback run, and added nothing
C14_Witness ==
    /\ parserOut.pc = "returned"
    /\ parserCall.crs = "unsupported"
    /\ parserCall.variant = "extruded"
    /\ parserCall.method = "MultiPolygon"
    /\ Len(CallRings) = 3
    /\ parserOut.callbacks = 1
    /\ parserLayers.own = <<>>
    /\ parserLayers.other = <<>>

\* the meshes of one surface kind built for polygon p
MeshesOf(surface, p) ==
    SelectSeq(parserLayers.own \o parserLayers.other,
              LAMBDA m : m.surface = surface /\ m.polygon = p)

\* C16 as claimed: in triangulated mode, for a Polygon and for every polygon
\* of a MultiPolygon, a top surface is always built, and lateral surfaces
\* are built exactly when extrusion is requested in the configuration; a
\* feature for which no lateral surfaces are built has its top surface at
\* altitude 0, for every value the configuration's extrude field can hold.
C16_LateralIffExtrudeElseGround ==
    (/\ Called /\ ~LayerAbsent /\ ~GeometryAbsent /\ CrsUsable
     /\ parserCall.variant = "triangulated") =>
        \A p \in 1..Len(parserCall.feature.geometry.polygons) :
            /\ MeshesOf("top", p) # <<>>
            /\ (MeshesOf("lateral", p) # <<>>) <=> Truthy(parserCall.conf.extrude)
            /\ (MeshesOf("lateral", p) = <<>>) =>
                  \A k \in 1..Len(MeshesOf("top", p)) :
                      MeshesOf("top", p)[k].altitude = Num(0)

\* the layer given as the layer argument
TargetLayer ==
    IF parserCall.layer = "own" THEN parserLayers.own ELSE parserLayers.other

\* C17 as claimed: in extruded-volume mode, processing a feature appends to
\* the layer passed as the layer argument exactly one shape per ring, in
\* ring order (for a MultiPolygon polygon by polygon), so the number of
\* shapes appended is the feature's total ring count; each shape is an
\* extruded volume when extrude is set and a flat surface shape otherwise,
\* and carries the configuration's altitudeMode.
C17_OneShapePerRingIntoArgument ==
    (/\ Called /\ ~LayerAbsent /\ ~GeometryAbsent /\ CrsUsable
     /\ parserCall.variant = "extruded") =>
        /\ Len(TargetLayer) = Len(CallRings)
        /\ \A k \in 1..Len(TargetLayer) :
              /\ <<TargetLayer[k].polygon, TargetLayer[k].ring>> = CallRings[k]
              /\ TargetLayer[k].shape =
                    IF Truthy(parserCall.conf.extrude) THEN "Polygon"
                    ELSE "SurfacePolygon"
              /\ TargetLayer[k].altitudeMode =
                    IF parserCall.conf.altitudeMode # ""
                    THEN parserCall.conf.altitudeMode ELSE "relativeToGround"

(***************************************************************************)
(* Further properties of the layer (Spec), of createSectors (SectorsSpec)  *)
(* and of setAltitude (AltitudeSpec)                                       *)
(***************************************************************************)
\* C18 as claimed: when a GeoJSONFile fetch succeeds but returns zero-length
\* data (an empty payload of any JSON shape: an empty array, an empty
\* object, a feature collection with no content), the request fails with
\* an error, no render layer is created or attached and nothing is cached
\* for that response.
C18_EmptyPayloadFails ==
    [][(/\ lastOp'.op = "success"
        /\ lastOp'.strategy = "GeoJSONFile"
        /\ lastOp'.features = <<>>) =>
          /\ lastOp'.raised = "ArgumentError"
          /\ wwLayers' = wwLayers
          /\ geometryCache' = geometryCache
          /\ propertiesCache' = propertiesCache]_vars

\* ceil(w / 0.01) for an extent w >= 0 in units of 1e-6 degree
CeilOfQuotient(w) == (w + SectorSize - 1) \div SectorSize

\* C19 as claimed, on boxes of at most five decimals with x1 < x2 and
\* y1 < y2: createSectors returns exactly
\* ceil((x2-x1)/0.01) * ceil((y2-y1)/0.01) sectors in row-major order with Y
\* as the outer index: the sector at position indexY*sectorsOnX + indexX has
\* its lower-left corner at (x1 + 0.01*indexX, y1 + 0.01*indexY), and only
\* the sectors of the last column or row have an upper edge taken from the
\* box instead of from the grid.
C19_CountAndRowMajorOrder ==
    (sectorPc = "done" /\ ProperBox(sectorBox) /\ FiveDecimals(sectorBox)) =>
        LET nx == CeilOfQuotient(sectorBox[3] - sectorBox[1])
            ny == CeilOfQuotient(sectorBox[4] - sectorBox[2])
        IN  /\ Len(sectors) = nx * ny
            /\ \A indexX \in 0..(nx - 1), indexY \in 0..(ny - 1) :
                  LET sector == sectors[indexY * nx + indexX + 1]
                  IN  /\ sector.minLongitude = sectorBox[1] + SectorSize * indexX
                      /\ sector.minLatitude = sectorBox[2] + SectorSize * indexY
                      /\ sector.maxLongitude =
                            IF indexX = nx - 1 THEN sectorBox[3]
                            ELSE sectorBox[1] + SectorSize * (indexX + 1)
                      /\ sector.maxLatitude =
                            IF indexY = ny - 1 THEN sectorBox[4]
                            ELSE sectorBox[2] + SectorSize * (indexY + 1)

\* the fields of the properties and the configured value are numbers or
\* not there; the configured value of a "property" altitude is the name of
\* a property
NumericInputs ==
    /\ properties.isMap
    /\ \A k \in KeySet : properties.own[k].t \in {"undefined", "num"}
    /\ \A k \in TagKeys : properties.tags[k].t \in {"undefined", "num"}
    /\ configuration.altitude.value.t \in {"undefined", "num", "key"}
    /\ configuration.altitude.value.t = "key" <=>
          (configuration.altitude.present /\ configuration.altitude.type = "property")

\* C20: for numeric property and configuration values, the altitude
\* setAltitude resolves is 0 if and only if configuration.extrude is falsy:
\* with extrude set, every branch (number, osm, property, absent or
\* unrecognised type) yields a number other than 0.
C20_ZeroIffNotExtruded ==
    (shapePc # "new" /\ shapePc # "off" /\ NumericInputs) =>
        /\ shapePc = "set"
        /\ altitude.t = "num"
        /\ (altitude.v = 0) <=> ~Truthy(configuration.extrude)

\* C20: an extruded shape whose height and configured number are both 0
\* got 15 from the number branch
C20_Witness ==
    /\ shapePc = "set"
    /\ NumericInputs
    /\ configuration.extrude = Num(2)
    /\ configuration.altitude.present
    /\ configuration.altitude.type = "number"
    /\ configuration.altitude.value = Num(0)
    /\ properties.own["height"] = Num(0)
    /\ altitude = Num(15)

====
